---- MODULE Spec2Model ----
(***************************************************************************)
(* Model of the bulkdownload module of dops (package bulkdownload,         *)
(* src/flags/debug/debug.go lines 41-193): the command's Action, the       *)
(* dispatch loop downloadMultipleFiles with its guard channel, the         *)
(* package-level sync.WaitGroup wg, readLines and downloadFile.            *)
(*                                                                         *)
(* Text is modelled as a sequence of one-character strings, so that        *)
(* line splitting and path handling are computed, not assumed.             *)
(***************************************************************************)
EXTENDS Integers, Sequences, FiniteSets, TLC

\* Bounds of the model.
MaxFileLen == 3        \* characters in the input file
MaxConcurrent == 2     \* largest value of the "concurrent" flag
BodyChunks == 2        \* writes io.Copy needs for one response body
MaxUrlLen == 3         \* characters of the url when file names are derived

\* Characters an input file of the model is made of.
FileChars == {"a", "\n"}

\* Values of the three flags the Action reads (c.String / c.Int).
ConcurrentValues == (0 - 1)..MaxConcurrent
OutputDirs == {<<>>, <<"o">>}
\* What the operating system answers to os.Open and to the scanner's reads.
IoOutcomes == {"ok", "open", "scan"}

RECURSIVE SeqsUpTo(_, _)
SeqsUpTo(S, n) ==
    IF n = 0 THEN {<<>>}
    ELSE LET shorter == SeqsUpTo(S, n - 1)
         IN  shorter \cup {Append(s, c) : s \in shorter, c \in S}

InputFiles == SeqsUpTo(FileChars, MaxFileLen)

\* Characters of a url with path segments, and the one-line input files
\* that hold such a url.
UrlChars == {"a", "b", "/"}
OneUrlFiles == {Append(u, "\n") : u \in SeqsUpTo(UrlChars, MaxUrlLen)}

VARIABLES
    inputFile,            \* content of the file named by --input
    ioOutcome,            \* how opening and scanning that file goes
    outputDir,            \* --output
    concurrentDownloads,  \* --concurrent
    mainpc,               \* position of the Action's goroutine
    result,               \* what the Action returned
    urls,                 \* the lines readLines returned
    index,                \* next element of the range loop
    guardCap, guardLen,   \* the guard channel: capacity and buffered elements
    wg,                   \* counter of the package-level WaitGroup
    pc,                   \* position of the goroutine of each url
    off,                  \* chunks each goroutine's io.Copy has written
    pbCurrent, pbTitle,   \* the progress bar
    sink,                 \* notices printed through pterm
    dirExists, files,     \* the output directory and the files under it
    proc,                 \* "running", or how the process was terminated
    second,               \* a second invocation of the Action in the process
    app                   \* a run of cli.App.RunContext

vars == << inputFile, ioOutcome, outputDir, concurrentDownloads, mainpc, result,
           urls, index, guardCap, guardLen, wg, pc, off, pbCurrent, pbTitle,
           sink, dirExists, files, proc, second, app >>

inputs == << inputFile, ioOutcome, outputDir, concurrentDownloads >>

----------------------------------------------------------------------------
\* bufio.ScanLines strips one trailing carriage return from a line.
dropCR(line) ==
    IF Len(line) > 0 /\ line[Len(line)] = "\r"
    THEN SubSeq(line, 1, Len(line) - 1)
    ELSE line

\* The scanner loop of readLines: one token per newline-terminated line,
\* empty lines included, and one for a non-empty unterminated last line.
RECURSIVE scanLines(_, _, _)
scanLines(data, cur, lines) ==
    IF data = <<>>
    THEN IF cur = <<>> THEN lines ELSE Append(lines, dropCR(cur))
    ELSE IF Head(data) = "\n"
         THEN scanLines(Tail(data), <<>>, Append(lines, dropCR(cur)))
         ELSE scanLines(Tail(data), Append(cur, Head(data)), lines)

\* A variant of readLines that drops the scanner's error.
readLinesNoScanErr(file, io) ==
    IF io = "open"
    THEN [lines |-> <<>>, err |-> "open"]
    ELSE [lines |-> scanLines(file, <<>>, <<>>), err |-> "nil"]

\* readLines: (nil, err) when os.Open fails, else (lines, scanner.Err()).
readLines(file, io) ==
    IF io = "open"
    THEN [lines |-> <<>>, err |-> "open"]
    ELSE [lines |-> scanLines(file, <<>>, <<>>),
          err |-> IF io = "scan" THEN "scan" ELSE "nil"]

\* filepath.Base on a slash-separated path.
RECURSIVE stripTrailingSlashes(_)
stripTrailingSlashes(path) ==
    IF Len(path) > 0 /\ path[Len(path)] = "/"
    THEN stripTrailingSlashes(SubSeq(path, 1, Len(path) - 1))
    ELSE path

RECURSIVE afterLastSlash(_)
afterLastSlash(path) ==
    IF path = <<>> \/ path[Len(path)] = "/"
    THEN <<>>
    ELSE Append(afterLastSlash(SubSeq(path, 1, Len(path) - 1)), path[Len(path)])

Base(path) ==
    IF path = <<>> THEN <<".">>
    ELSE LET name == afterLastSlash(stripTrailingSlashes(path))
         IN  IF name = <<>> THEN <<"/">> ELSE name

\* What http.Get can answer for a URL: the empty URL has no protocol scheme
\* and always fails; any other URL fails, answers 200, or answers another status.
GetOutcomes(URL) ==
    IF URL = <<>> THEN {"err"} ELSE {"err", "ok", "status"}

\* A variant of downloadFile that returns an error for a status other than 200.
AfterGetStatusFails(o, dir) ==
    IF o \in {"err", "status"} THEN "fatal"
    ELSE IF dir # <<>> THEN "mkdir" ELSE "create"

\* Where downloadFile goes after http.Get answered o: it returns the error
\* (line 159), or goes on, whatever the status, to os.MkdirAll when an
\* output directory is given (line 169) and to os.Create otherwise.
AfterGet(o, dir) ==
    IF o = "err" THEN "fatal"
    ELSE IF dir # <<>> THEN "mkdir" ELSE "create"

\* A variant of the channel send that admits one element too many.
CanSendOneMore(len, cap) == len <= cap

\* A variant of the channel send that blocks with one place still free.
CanSendButLast(len, cap) == len + 1 < cap

\* guard <- struct{}{} proceeds while the buffer has room; on an unbuffered
\* channel it needs a receiver, and the only receivers are dispatched tasks.
CanSend(len, cap) == len < cap

\* A variant of wg.Wait that returns with one task outstanding.
WaitReturnsEarly(counter) == counter <= 1

\* wg.Wait blocks until the counter is zero.
WaitReturns(counter) == counter = 0

\* A variant of the range loop that does not advance.
NextIndexStuck(i) == i

\* A variant of the range loop that passes over every other url.
NextIndexSkip(i) == i + 2

\* The range loop moves to the next url.
NextIndex(i) == i + 1

Jobs == 1..Len(urls)

\* The state of the job of the i-th url, read off its goroutine's position p:
\* not yet started by the loop; started and downloadFile not yet returned;
\* downloadFile returned nil; downloadFile returned an error.
JobStateAt(p, i) ==
    IF i \notin DOMAIN p \/ p[i] = "pending" THEN "Pending"
    ELSE IF p[i] \in {"title", "get", "mkdir", "create", "copy", "done"}
         THEN "InFlight"
    ELSE IF p[i] = "fatal" THEN "Failed"
    ELSE "Succeeded"

JobState(i) == JobStateAt(pc, i)

Terminal == {"Succeeded", "Failed"}

\* The tasks the loop has started that have not executed <-guard.
HoldingPermit == {i \in Jobs : pc[i] \notin {"pending", "finished"}}

\* No second invocation of the Action is under way.
NoSecond ==
    [mainpc |-> "off", urls |-> <<>>, index |-> 1, guardCap |-> 0,
     guardLen |-> 0, pc |-> <<>>, result |-> "none"]

\* No run of App.RunContext is followed.
NoApp == [pc |-> "off"]

----------------------------------------------------------------------------
InitRun ==
    /\ inputFile \in InputFiles
    /\ ioOutcome \in IoOutcomes
    /\ outputDir \in OutputDirs
    /\ concurrentDownloads \in ConcurrentValues
    /\ mainpc = "start"
    /\ result = "none"
    /\ urls = <<>>
    /\ index = 1
    /\ guardCap = 0
    /\ guardLen = 0
    /\ wg = 0
    /\ pc = <<>>
    /\ off = <<>>
    /\ pbCurrent = 0
    /\ pbTitle = <<>>
    /\ sink = {}
    /\ dirExists = FALSE
    /\ files = <<>>
    /\ proc = "running"

\* The state after construction: one invocation, about to read its flags.
Init ==
    /\ InitRun
    /\ second = NoSecond
    /\ app = NoApp

\* Action, lines 73-85: read the list; return its error, or register every
\* url with wg, announce the total and start the progress bar.
ActionStart ==
    /\ proc = "running"
    /\ mainpc = "start"
    /\ LET r == readLines(inputFile, ioOutcome)
       IN  IF r.err # "nil"
           THEN /\ result' = "err"
                /\ mainpc' = "returned"
                /\ UNCHANGED << urls, wg, pc, off, sink, pbTitle >>
           ELSE /\ urls' = r.lines
                /\ wg' = wg + Len(r.lines)
                /\ pc' = [i \in 1..Len(r.lines) |-> "pending"]
                /\ off' = [i \in 1..Len(r.lines) |-> 0]
                /\ sink' = sink \cup {<<"info", Len(r.lines)>>}
                /\ pbTitle' = <<"Downloading">>
                /\ mainpc' = "make"
                /\ UNCHANGED result
    /\ UNCHANGED << inputs, second, app, index, guardCap, guardLen, pbCurrent, dirExists,
                    files, proc >>

\* downloadMultipleFiles, line 123: make(chan struct{}, n) panics for n < 0.
MakeGuard ==
    /\ proc = "running"
    /\ mainpc = "make"
    /\ IF concurrentDownloads < 0
       THEN /\ proc' = "panic"
            /\ UNCHANGED << guardCap, mainpc >>
       ELSE /\ guardCap' = concurrentDownloads
            /\ mainpc' = "loop"
            /\ UNCHANGED proc
    /\ UNCHANGED << inputs, second, app, result, urls, index, guardLen, wg, pc, off,
                    pbCurrent, pbTitle, sink, dirExists, files >>

\* Lines 125-127 and 136: take a permit, start the goroutine of urls[index].
Dispatch ==
    /\ proc = "running"
    /\ mainpc = "loop"
    /\ index <= Len(urls)
    /\ CanSend(guardLen, guardCap)
    /\ guardLen' = guardLen + 1
    /\ pc' = [pc EXCEPT ![index] = "title"]
    /\ off' = [off EXCEPT ![index] = 0]
    /\ index' = NextIndex(index)
    /\ UNCHANGED << inputs, second, app, mainpc, result, urls, guardCap, wg, pbCurrent,
                    pbTitle, sink, dirExists, files, proc >>

\* Line 137-138 and 87: the range is exhausted, downloadMultipleFiles returns.
LoopDone ==
    /\ proc = "running"
    /\ mainpc = "loop"
    /\ index > Len(urls)
    /\ mainpc' = "wait"
    /\ UNCHANGED << inputs, second, app, result, urls, index, guardCap, guardLen, wg, pc,
                    off, pbCurrent, pbTitle, sink, dirExists, files, proc >>

\* Lines 88-89: wg.Wait(), then return nil.
Wait ==
    /\ proc = "running"
    /\ mainpc = "wait"
    /\ WaitReturns(wg)
    /\ mainpc' = "returned"
    /\ result' = "nil"
    /\ UNCHANGED << inputs, second, app, urls, index, guardCap, guardLen, wg, pc, off,
                    pbCurrent, pbTitle, sink, dirExists, files, proc >>

----------------------------------------------------------------------------
\* The goroutine of urls[i], lines 127-136, with downloadFile inlined.

TitleOfUrl(URL) == URL

\* Line 128: the value assigned to pb.Title.
TitleOf(URL) == Base(URL)

\* pb.Title is a string written by the goroutines without synchronisation
\* (line 128): two writes that overlap can leave the pointer of one value
\* with the length of the other.  TornTitle stands for any such mix.
TornTitle == << "?" >>

\* Another task is at its write of pb.Title too.
RacingTitle(i) == \E j \in DOMAIN pc : j # i /\ pc[j] = "title"

\* Line 128.
SetTitle(i) ==
    /\ proc = "running"
    /\ pc[i] = "title"
    /\ pbTitle' \in {TitleOf(urls[i])} \cup
                      (IF RacingTitle(i) THEN {TornTitle} ELSE {})
    /\ pc' = [pc EXCEPT ![i] = "get"]
    /\ UNCHANGED << inputs, second, app, mainpc, result, urls, index, guardCap, guardLen,
                    wg, off, pbCurrent, sink, dirExists, files, proc >>

\* Lines 157-169: http.Get; on an error downloadFile returns it; a status
\* other than 200 is printed and the download goes on.
HttpGet(i) ==
    /\ proc = "running"
    /\ pc[i] = "get"
    /\ \E o \in GetOutcomes(urls[i]) :
         /\ pc' = [pc EXCEPT ![i] = AfterGet(o, outputDir)]
         /\ sink' = IF o = "status" THEN sink \cup {<<"status", i>>} ELSE sink
    /\ UNCHANGED << inputs, second, app, mainpc, result, urls, index, guardCap, guardLen,
                    wg, off, pbCurrent, pbTitle, dirExists, files, proc >>

\* Lines 171-176: os.MkdirAll(outputDir).
MkdirAll(i) ==
    /\ proc = "running"
    /\ pc[i] = "mkdir"
    /\ \E ok \in BOOLEAN :
         IF ok
         THEN /\ dirExists' = TRUE
              /\ pc' = [pc EXCEPT ![i] = "create"]
         ELSE /\ ~dirExists
              /\ pc' = [pc EXCEPT ![i] = "fatal"]
              /\ UNCHANGED dirExists
    /\ UNCHANGED << inputs, second, app, mainpc, result, urls, index, guardCap, guardLen,
                    wg, off, pbCurrent, pbTitle, sink, files, proc >>

\* The content of a file just created or truncated.
EmptyFile == [k \in 1..BodyChunks |-> 0]

\* How os.Create can go for a name: "." and "/" name directories, which
\* cannot be created as files.
CreateOutcomes(name) ==
    IF name \in {<<".">>, <<"/">>} THEN {FALSE} ELSE BOOLEAN

\* Lines 179-182: os.Create creates the file or truncates an existing one.
Create(i) ==
    /\ proc = "running"
    /\ pc[i] = "create"
    /\ \E ok \in CreateOutcomes(Base(urls[i])) :
         IF ok
         THEN /\ files' = (Base(urls[i]) :> EmptyFile) @@ files
              /\ pc' = [pc EXCEPT ![i] = "copy"]
         ELSE /\ pc' = [pc EXCEPT ![i] = "fatal"]
              /\ UNCHANGED files
    /\ UNCHANGED << inputs, second, app, mainpc, result, urls, index, guardCap, guardLen,
                    wg, off, pbCurrent, pbTitle, sink, dirExists, proc >>

\* Lines 186-189: io.Copy writes the body chunk by chunk at the offset of
\* this task's own file descriptor; a read or write error ends it.
Copy(i) ==
    /\ proc = "running"
    /\ pc[i] = "copy"
    /\ \E ok \in BOOLEAN :
         IF ok
         THEN /\ files' = [files EXCEPT ![Base(urls[i])][off[i] + 1] = i]
              /\ off' = [off EXCEPT ![i] = off[i] + 1]
              /\ pc' = [pc EXCEPT ![i] =
                           IF off[i] + 1 = BodyChunks THEN "done" ELSE "copy"]
         ELSE /\ pc' = [pc EXCEPT ![i] = "fatal"]
              /\ UNCHANGED << files, off >>
    /\ UNCHANGED << inputs, second, app, mainpc, result, urls, index, guardCap, guardLen,
                    wg, pbCurrent, pbTitle, sink, dirExists, proc >>

\* Lines 191-192: wg.Done(), reached on the success path only; return nil.
WgDone(i) ==
    /\ proc = "running"
    /\ pc[i] = "done"
    /\ IF wg - 1 < 0
       THEN /\ proc' = "panic"
            /\ UNCHANGED << wg, pc >>
       ELSE /\ wg' = wg - 1
            /\ pc' = [pc EXCEPT ![i] = "success"]
            /\ UNCHANGED proc
    /\ UNCHANGED << inputs, second, app, mainpc, result, urls, index, guardCap, guardLen,
                    off, pbCurrent, pbTitle, sink, dirExists, files >>

\* Lines 130-132: pterm.Fatal prints the error and terminates the process.
Fatal(i) ==
    /\ proc = "running"
    /\ pc[i] = "fatal"
    /\ sink' = sink \cup {<<"fatal", i>>}
    /\ proc' = "fatal"
    /\ UNCHANGED << inputs, second, app, mainpc, result, urls, index, guardCap, guardLen,
                    wg, pc, off, pbCurrent, pbTitle, dirExists, files >>

\* Line 133.
PrintSuccess(i) ==
    /\ proc = "running"
    /\ pc[i] = "success"
    /\ sink' = sink \cup {<<"success", i>>}
    /\ pc' = [pc EXCEPT ![i] = "increment"]
    /\ UNCHANGED << inputs, second, app, mainpc, result, urls, index, guardCap, guardLen,
                    wg, off, pbCurrent, pbTitle, dirExists, files, proc >>

\* Line 134.
Increment(i) ==
    /\ proc = "running"
    /\ pc[i] = "increment"
    /\ pbCurrent' = pbCurrent + 1
    /\ pc' = [pc EXCEPT ![i] = "release"]
    /\ UNCHANGED << inputs, second, app, mainpc, result, urls, index, guardCap, guardLen,
                    wg, off, pbTitle, sink, dirExists, files, proc >>

\* Line 135: <-guard gives the permit back.
Release(i) ==
    /\ proc = "running"
    /\ pc[i] = "release"
    /\ guardLen' = guardLen - 1
    /\ pc' = [pc EXCEPT ![i] = "finished"]
    /\ UNCHANGED << inputs, second, app, mainpc, result, urls, index, guardCap, wg, off,
                    pbCurrent, pbTitle, sink, dirExists, files, proc >>

Next ==
    \/ ActionStart
    \/ MakeGuard
    \/ Dispatch
    \/ LoopDone
    \/ Wait
    \/ \E i \in Jobs : SetTitle(i)
    \/ \E i \in Jobs : HttpGet(i)
    \/ \E i \in Jobs : MkdirAll(i)
    \/ \E i \in Jobs : Create(i)
    \/ \E i \in Jobs : Copy(i)
    \/ \E i \in Jobs : WgDone(i)
    \/ \E i \in Jobs : Fatal(i)
    \/ \E i \in Jobs : PrintSuccess(i)
    \/ \E i \in Jobs : Increment(i)
    \/ \E i \in Jobs : Release(i)

Spec == Init /\ [][Next]_vars

\* Runs on an input file of one url made of path segments, with one permit.
InitOneUrl ==
    /\ inputFile \in OneUrlFiles
    /\ ioOutcome = "ok"
    /\ outputDir \in OutputDirs
    /\ concurrentDownloads = 1
    /\ mainpc = "start"
    /\ result = "none"
    /\ urls = <<>>
    /\ index = 1
    /\ guardCap = 0
    /\ guardLen = 0
    /\ wg = 0
    /\ pc = <<>>
    /\ off = <<>>
    /\ pbCurrent = 0
    /\ pbTitle = <<>>
    /\ sink = {}
    /\ dirExists = FALSE
    /\ files = <<>>
    /\ proc = "running"
    /\ second = NoSecond
    /\ app = NoApp

SpecOneUrl == InitOneUrl /\ [][Next]_vars

----------------------------------------------------------------------------
\* A second invocation of the same Action with the same flags, running in
\* the process at the same time as the first.  wg is a package-level variable
\* (line 57), so both invocations use the one counter; urls, guard and the
\* progress bar are locals of each invocation.  The second invocation is
\* followed in what it shares with the first, wg and the process: the steps
\* of a task between the start of its goroutine and the return of
\* downloadFile are taken as one, and its files and notices are left out.

secondVars == << inputs, mainpc, result, urls, index, guardCap, guardLen, pc,
                 off, pbCurrent, pbTitle, sink, dirExists, files, app >>

SecondJobs == 1..Len(second.urls)

\* Lines 73-85 in the second invocation.
SecondStart ==
    /\ proc = "running"
    /\ second.mainpc = "start"
    /\ LET r == readLines(inputFile, ioOutcome)
       IN  IF r.err # "nil"
           THEN /\ second' = [second EXCEPT !.mainpc = "returned",
                                            !.result = "err"]
                /\ UNCHANGED wg
           ELSE /\ second' = [second EXCEPT
                                 !.mainpc = "make",
                                 !.urls = r.lines,
                                 !.pc = [j \in 1..Len(r.lines) |-> "pending"]]
                /\ wg' = wg + Len(r.lines)
    /\ UNCHANGED << secondVars, proc >>

\* Line 123 in the second invocation.
SecondMakeGuard ==
    /\ proc = "running"
    /\ second.mainpc = "make"
    /\ IF concurrentDownloads < 0
       THEN /\ proc' = "panic"
            /\ UNCHANGED second
       ELSE /\ second' = [second EXCEPT !.mainpc = "loop",
                                        !.guardCap = concurrentDownloads]
            /\ UNCHANGED proc
    /\ UNCHANGED << secondVars, wg >>

\* Lines 125-127 in the second invocation.
SecondDispatch ==
    /\ proc = "running"
    /\ second.mainpc = "loop"
    /\ second.index <= Len(second.urls)
    /\ CanSend(second.guardLen, second.guardCap)
    /\ second' = [second EXCEPT !.guardLen = @ + 1,
                                !.pc[second.index] = "inflight",
                                !.index = NextIndex(@)]
    /\ UNCHANGED << secondVars, wg, proc >>

\* Lines 137-138 and 87 in the second invocation.
SecondLoopDone ==
    /\ proc = "running"
    /\ second.mainpc = "loop"
    /\ second.index > Len(second.urls)
    /\ second' = [second EXCEPT !.mainpc = "wait"]
    /\ UNCHANGED << secondVars, wg, proc >>

\* Lines 88-89 in the second invocation.
SecondWait ==
    /\ proc = "running"
    /\ second.mainpc = "wait"
    /\ WaitReturns(wg)
    /\ second' = [second EXCEPT !.mainpc = "returned", !.result = "nil"]
    /\ UNCHANGED << secondVars, wg, proc >>

\* Lines 128-129 and 157-189 for a task of the second invocation: the
\* transfer up to the point where downloadFile returns an error or is about
\* to call wg.Done.
SecondTransfer(j) ==
    /\ proc = "running"
    /\ second.pc[j] = "inflight"
    /\ \E o \in GetOutcomes(second.urls[j]), written \in BOOLEAN :
         second' = [second EXCEPT !.pc[j] =
                       IF o = "err" \/ ~written THEN "fatal" ELSE "done"]
    /\ UNCHANGED << secondVars, wg, proc >>

\* Lines 191-192 for a task of the second invocation.
SecondWgDone(j) ==
    /\ proc = "running"
    /\ second.pc[j] = "done"
    /\ IF wg - 1 < 0
       THEN /\ proc' = "panic"
            /\ UNCHANGED << wg, second >>
       ELSE /\ wg' = wg - 1
            /\ second' = [second EXCEPT !.pc[j] = "success"]
            /\ UNCHANGED proc
    /\ UNCHANGED secondVars

\* Lines 130-132 for a task of the second invocation.
SecondFatal(j) ==
    /\ proc = "running"
    /\ second.pc[j] = "fatal"
    /\ proc' = "fatal"
    /\ UNCHANGED << secondVars, wg, second >>

\* Lines 133-135 for a task of the second invocation.
SecondFinish(j) ==
    /\ proc = "running"
    /\ second.pc[j] = "success"
    /\ second' = [second EXCEPT !.pc[j] = "finished", !.guardLen = @ - 1]
    /\ UNCHANGED << secondVars, wg, proc >>

InitTwoRuns ==
    /\ InitRun
    /\ second = [NoSecond EXCEPT !.mainpc = "start"]
    /\ app = NoApp

NextTwoRuns ==
    \/ Next
    \/ SecondStart
    \/ SecondMakeGuard
    \/ SecondDispatch
    \/ SecondLoopDone
    \/ SecondWait
    \/ \E j \in SecondJobs : SecondTransfer(j)
    \/ \E j \in SecondJobs : SecondWgDone(j)
    \/ \E j \in SecondJobs : SecondFatal(j)
    \/ \E j \in SecondJobs : SecondFinish(j)

SpecTwoRuns == InitTwoRuns /\ [][NextTwoRuns]_vars

----------------------------------------------------------------------------
\* App.RunContext (src/module/modules/modules.go, lines 330-426), the
\* dispatcher that runs a command or the default Action between the Before
\* and After callbacks.  The callbacks are functions of the application:
\* what each returns is an input, chosen when it is called.  An error is
\* "plain" or "exit" (it fulfills ExitCoder); a callback may also panic.
\* RunContext's result err is kept as the sequence of the sources of the
\* errors combined in it.

\* The checks of lines 341-385, in the order of the code: which one ends the
\* run, or "pass" when none does.
PreChecks ==
    {"flagset", "normalize", "completion", "usage", "onUsageNil",
     "onUsagePlain", "onUsageExit", "help", "version", "required", "pass"}

CallbackOutcomes == {"nil", "plain", "exit", "panic"}

\* HandleExitCoder: for an error that fulfills ExitCoder it prints the error
\* and ends the process with the error's exit code; any other error, and
\* nil, it leaves to the caller (lines 183-185 and 430-432).
HandleExitCoder(kind) == kind = "exit"

\* Lines 617-623: TRUE when the process ends in the call.  An ExitErrHandler
\* of the application is taken to return.
handleExitCoder(kind, exitErrHandlerSet) ==
    IF exitErrHandlerSet THEN FALSE ELSE HandleExitCoder(kind)

BeforeFailsNever(out) == FALSE

\* Line 401: beforeErr != nil.
BeforeFails(out) == out \in {"plain", "exit"}

appVars == << inputs, mainpc, result, urls, index, guardCap, guardLen, wg, pc,
              off, pbCurrent, pbTitle, sink, dirExists, files, proc, second >>

\* Lines 331-385: set-up, parsing and the checks that return before any
\* callback is deferred or run.
AppParse ==
    /\ app.pc = "start"
    /\ app' =
         CASE app.pre = "pass" -> [app EXCEPT !.pc = "defer", !.passed = TRUE]
           [] app.pre \in {"completion", "help", "version", "onUsageNil"} ->
                [app EXCEPT !.pc = "returned"]
           [] app.pre \in {"flagset", "normalize", "usage", "required"} ->
                [app EXCEPT !.pc = "returned", !.err = << app.pre >>]
           [] app.pre = "onUsagePlain" ->
                [app EXCEPT !.pc = "returned", !.err = << "usage" >>]
           [] app.pre = "onUsageExit" ->
                IF handleExitCoder("exit", app.exitErrHandlerSet)
                THEN [app EXCEPT !.pc = "exited"]
                ELSE [app EXCEPT !.pc = "returned", !.err = << "usage" >>]
    /\ UNCHANGED appVars

\* Lines 387-397: the defer statement.
AppDeferAfter ==
    /\ app.pc = "defer"
    /\ app' = [app EXCEPT !.pc = "before", !.deferred = app.afterSet]
    /\ UNCHANGED appVars

\* Lines 399-406.
AppBefore ==
    /\ app.pc = "before"
    /\ IF ~app.beforeSet
       THEN app' = [app EXCEPT !.pc = "route"]
       ELSE \E out \in CallbackOutcomes :
              app' =
                IF out = "panic"
                THEN [app EXCEPT !.pc = "unwind", !.beforeOut = out,
                                 !.panicking = TRUE]
                ELSE IF BeforeFails(out)
                THEN IF handleExitCoder(out, app.exitErrHandlerSet)
                     THEN [app EXCEPT !.pc = "exited", !.beforeOut = out]
                     ELSE [app EXCEPT !.pc = "unwind", !.beforeOut = out,
                                      !.err = << "before" >>]
                ELSE [app EXCEPT !.pc = "route", !.beforeOut = out]
    /\ UNCHANGED appVars

\* Lines 408-415: return c.Run(newContext).  The command handles an
\* ExitCoder error of its action through the application's handleExitCoder.
AppCommand ==
    /\ app.pc = "route"
    /\ app.hasCommand
    /\ \E out \in CallbackOutcomes :
         app' =
           CASE out = "panic" ->
                  [app EXCEPT !.pc = "unwind", !.cmdRuns = @ + 1,
                              !.panicking = TRUE]
             [] out = "nil" ->
                  [app EXCEPT !.pc = "unwind", !.cmdRuns = @ + 1]
             [] out = "plain" ->
                  [app EXCEPT !.pc = "unwind", !.cmdRuns = @ + 1,
                              !.err = << "command" >>]
             [] out = "exit" ->
                  IF handleExitCoder(out, app.exitErrHandlerSet)
                  THEN [app EXCEPT !.pc = "exited", !.cmdRuns = @ + 1]
                  ELSE [app EXCEPT !.pc = "unwind", !.cmdRuns = @ + 1,
                                   !.err = << "command" >>]
    /\ UNCHANGED appVars

\* Lines 417-425: the default Action.
AppAction ==
    /\ app.pc = "route"
    /\ ~app.hasCommand
    /\ \E out \in CallbackOutcomes :
         app' =
           CASE out = "panic" ->
                  [app EXCEPT !.pc = "unwind", !.actionRuns = @ + 1,
                              !.panicking = TRUE]
             [] out = "nil" ->
                  [app EXCEPT !.pc = "unwind", !.actionRuns = @ + 1]
             [] out \in {"plain", "exit"} ->
                  IF handleExitCoder(out, app.exitErrHandlerSet)
                  THEN [app EXCEPT !.pc = "exited", !.actionRuns = @ + 1]
                  ELSE [app EXCEPT !.pc = "unwind", !.actionRuns = @ + 1,
                                   !.err = << "action" >>]
    /\ UNCHANGED appVars

\* Lines 388-396: the deferred function, run when RunContext returns or
\* unwinds in a panic.
AppAfter ==
    /\ app.pc = "unwind"
    /\ app.deferred
    /\ \E out \in CallbackOutcomes :
         app' =
           CASE out = "panic" ->
                  [app EXCEPT !.deferred = FALSE, !.afterRuns = @ + 1,
                              !.afterOut = out, !.panicking = TRUE]
             [] out = "nil" ->
                  [app EXCEPT !.deferred = FALSE, !.afterRuns = @ + 1,
                              !.afterOut = out]
             [] out \in {"plain", "exit"} ->
                  [app EXCEPT !.deferred = FALSE, !.afterRuns = @ + 1,
                              !.afterOut = out,
                              !.err = IF app.err # <<>>
                                      THEN Append(app.err, "after")
                                      ELSE << "after" >>]
    /\ UNCHANGED appVars

\* Line 426: RunContext has returned err to its caller, or the panic has
\* left it.
AppReturn ==
    /\ app.pc = "unwind"
    /\ ~app.deferred
    /\ app' = [app EXCEPT !.pc = IF app.panicking THEN "panicked"
                                                  ELSE "returned"]
    /\ UNCHANGED appVars

\* The App as constructed, RunContext not yet called; the downloader is not
\* invoked.
InitApp ==
    /\ inputFile = <<>>
    /\ ioOutcome = "ok"
    /\ outputDir = <<>>
    /\ concurrentDownloads = 1
    /\ InitRun
    /\ second = NoSecond
    /\ \E pre \in PreChecks, afterSet \in BOOLEAN, beforeSet \in BOOLEAN,
          hasCommand \in BOOLEAN, exitErrHandlerSet \in BOOLEAN :
         app = [pc |-> "start", pre |-> pre, afterSet |-> afterSet,
                beforeSet |-> beforeSet, hasCommand |-> hasCommand,
                exitErrHandlerSet |-> exitErrHandlerSet,
                passed |-> FALSE, deferred |-> FALSE, panicking |-> FALSE,
                err |-> <<>>, beforeOut |-> "none", afterOut |-> "none",
                cmdRuns |-> 0, actionRuns |-> 0, afterRuns |-> 0]

NextApp ==
    \/ AppParse
    \/ AppDeferAfter
    \/ AppBefore
    \/ AppCommand
    \/ AppAction
    \/ AppAfter
    \/ AppReturn

SpecApp == InitApp /\ [][NextApp]_vars

----------------------------------------------------------------------------
\* Properties of the bulk downloader.

\* C1: for a concurrency limit N >= 1, the number of tasks that have been
\* dispatched and have not yet released their permit never exceeds N.
C1_ConcurrencyBound ==
    concurrentDownloads >= 1 =>
        Cardinality(HoldingPermit) <= concurrentDownloads

\* All N >= 2 permits are held while a further url waits at the gate.
C1_Witness ==
    /\ concurrentDownloads >= 2
    /\ Cardinality(HoldingPermit) = concurrentDownloads
    /\ mainpc = "loop"
    /\ index <= Len(urls)

\* C2: the Action returns nil (its wg.Wait unblocks) only in states where
\* every one of the M jobs is terminal, downloadFile having returned for it:
\* none is Pending or InFlight and the terminal jobs number exactly M.
C2_Completeness ==
    (mainpc = "returned" /\ result = "nil") =>
        /\ \A i \in Jobs : JobState(i) \in Terminal
        /\ Cardinality({i \in Jobs : JobState(i) \in Terminal}) = Len(urls)

\* The Action has returned from a run of at least two urls.
C2_Witness ==
    /\ mainpc = "returned"
    /\ result = "nil"
    /\ Len(urls) >= 2

\* Every line of the input file is a url, none is empty.
NoEmptyUrl == \A k \in Jobs : urls[k] # <<>>

\* C3: a job that failed does not abort its siblings: the process is never
\* brought down while another job is still Pending or InFlight.
C3_SiblingsNotAborted ==
    \A i \in Jobs :
        (NoEmptyUrl /\ JobState(i) = "Failed") =>
            ~(proc # "running" /\
              \E j \in Jobs \ {i} : JobState(j) \in {"Pending", "InFlight"})

\* C4: once the url list was read, no combination of per-item outcomes
\* changes the terminal status of the process.
C4_PerItemErrorsSwallowed ==
    (ioOutcome = "ok" /\ NoEmptyUrl) => proc # "fatal"

\* C5: the WaitGroup counter equals the number of jobs that are not yet
\* terminal, so it is zero exactly when every job is Succeeded or Failed.
C5_TrackerCountsNonTerminal ==
    wg = Cardinality({i \in Jobs : JobState(i) \notin Terminal})

\* C6: with a configured concurrency of 0 or less and a non-empty url list
\* the run goes on as with concurrency 1: until the Action has returned it
\* can always take a next step, it neither crashes nor blocks at the gate.
C6_ConcurrencyClamped ==
    (concurrentDownloads <= 0 /\ Len(urls) >= 1 /\ NoEmptyUrl) =>
        (mainpc = "returned" \/ ENABLED Next)

\* C7: for an empty url list nothing is dispatched, no permit is taken, the
\* WaitGroup stays at zero, nothing is created on disk, and the Action goes
\* on to return: it has returned or can take its next step.
C7_EmptyInput ==
    (ioOutcome = "ok" /\ mainpc # "start" /\ urls = <<>>) =>
        /\ guardLen = 0
        /\ wg = 0
        /\ ~dirExists
        /\ DOMAIN files = {}
        /\ (mainpc = "returned" \/ ENABLED Next)

\* The number of non-empty lines of a file: the maximal runs of characters
\* other than the newline.
NonEmptyLines(file) ==
    Cardinality({k \in 1..Len(file) :
                    /\ file[k] # "\n"
                    /\ (k = 1 \/ file[k - 1] = "\n")})

\* C8: the number of jobs equals the number of non-empty lines of the input
\* file; an empty line yields no job.
C8_OneJobPerNonEmptyLine ==
    (ioOutcome = "ok" /\ mainpc # "start") =>
        Len(urls) = NonEmptyLines(inputFile)

\* C9: when the url list cannot be opened or read, the Action returns that
\* error and nothing else happens: no task, no permit, no WaitGroup
\* increment, no notice, no file and no directory.
C9_InputError ==
    ioOutcome # "ok" =>
        /\ mainpc \in {"start", "returned"}
        /\ mainpc = "returned" => result = "err"
        /\ \A i \in DOMAIN pc : pc[i] = "pending"
        /\ HoldingPermit = {}
        /\ guardLen = 0
        /\ wg = 0
        /\ sink = {}
        /\ ~dirExists
        /\ DOMAIN files = {}
        /\ proc = "running"

\* The scanner failed on a file that holds lines, and the Action returned.
C9_Witness ==
    /\ ioOutcome = "scan"
    /\ Len(scanLines(inputFile, <<>>, <<>>)) >= 1
    /\ mainpc = "returned"
    /\ result = "err"

\* The moves of the per-job state machine.
JobMoves ==
    {<<"Pending", "InFlight">>, <<"InFlight", "Succeeded">>,
     <<"InFlight", "Failed">>}

\* C10: a job only moves Pending -> InFlight -> Succeeded or Failed, the
\* last two are absorbing, and every permit the loop takes starts a job that
\* was Pending, so no job is started twice.
C10_JobStateMachine ==
    [][ /\ \A i \in DOMAIN pc' :
              \/ JobStateAt(pc', i) = JobStateAt(pc, i)
              \/ <<JobStateAt(pc, i), JobStateAt(pc', i)>> \in JobMoves
        /\ guardLen' = guardLen + 1 =>
              \E i \in DOMAIN pc' :
                  /\ JobStateAt(pc, i) = "Pending"
                  /\ JobStateAt(pc', i) = "InFlight"
                  /\ \A j \in DOMAIN pc' \ {i} : pc'[j] = pc[j] ]_vars

\* One job has succeeded and another has failed.
C10_Witness ==
    \E i, j \in Jobs : JobState(i) = "Succeeded" /\ JobState(j) = "Failed"

\* C11: jobs are admitted in input order: a job is never started while the
\* job of an earlier url is still Pending.
C11_SubmissionOrder ==
    \A i, j \in Jobs :
        (i < j /\ JobState(j) # "Pending") => JobState(i) # "Pending"

\* Completion order is free: a later job is terminal, an earlier one InFlight.
C11_Witness ==
    \E i, j \in Jobs :
        i < j /\ JobState(j) \in Terminal /\ JobState(i) = "InFlight"

\* The complete body of job w, as the content of a file.
BodyOf(w) == [k \in 1..BodyChunks |-> w]

\* C13: a status other than 200 does not fail the item: the step that prints
\* the diagnostic leaves the job in flight on its way to the file, and a job
\* so warned that Succeeded has written its whole body and was counted by the
\* WaitGroup like every other successful job.
C13_StatusWarning ==
    /\ [][ \A i \in DOMAIN pc :
              (<<"status", i>> \notin sink /\ <<"status", i>> \in sink') =>
                  /\ JobStateAt(pc', i) = "InFlight"
                  /\ pc'[i] \in {"mkdir", "create"} ]_vars
    /\ [](\A i \in Jobs :
              (<<"status", i>> \in sink /\ JobState(i) = "Succeeded") =>
                  /\ off[i] = BodyChunks
                  /\ wg = Len(urls) -
                          Cardinality({j \in Jobs : JobState(j) = "Succeeded"}))

\* A job warned about its status has finished and its body is on disk.
C13_Witness ==
    \E i \in Jobs :
        /\ <<"status", i>> \in sink
        /\ pc[i] = "finished"
        /\ Base(urls[i]) \in DOMAIN files
        /\ files[Base(urls[i])] = BodyOf(i)

\* C14: when every job writing to one file name has succeeded, of which
\* there are at least two, the file holds the complete body of one of them.
\* (Each request's response body is its own, also for a repeated url.)
C14_LastWriterWins ==
    \A i, j \in Jobs :
        LET name == Base(urls[i])
            writers == {w \in Jobs : Base(urls[w]) = name}
        IN  (i # j /\ j \in writers /\
             \A w \in writers : JobState(w) = "Succeeded") =>
                \E w \in writers : files[name] = BodyOf(w)

\* C18: the loop is suspended at the gate only when all N permits are held:
\* with fewer than N tasks holding one, and so always when N >= len(urls),
\* the next url can be dispatched at once.
C18_GateAdmission ==
    (proc = "running" /\ mainpc = "loop" /\ index <= Len(urls)) =>
        /\ Cardinality(HoldingPermit) < concurrentDownloads => ENABLED Dispatch
        /\ concurrentDownloads >= Len(urls) => ENABLED Dispatch

\* Full parallelism: N >= M >= 2 and all M jobs are InFlight together.
C18_Witness ==
    /\ Len(urls) >= 2
    /\ concurrentDownloads >= Len(urls)
    /\ \A i \in Jobs : JobState(i) = "InFlight"

\* C19: when the Action has returned from wg.Wait, the progress counter is M,
\* every job's success notice is printed and every goroutine has finished.
C19_ReportingCompleteAtReturn ==
    (mainpc = "returned" /\ result = "nil") =>
        /\ pbCurrent = Len(urls)
        /\ \A i \in Jobs : <<"success", i>> \in sink /\ pc[i] = "finished"

\* C20: the progress counter advances once per job whose transfer has
\* finished, failed jobs like successful ones: when nothing can take a step
\* any more it equals the number of terminal jobs.
C20_ProgressCountsTerminalJobs ==
    /\ pbCurrent <= Cardinality({i \in Jobs : JobState(i) \in Terminal})
    /\ pbCurrent <= Len(urls)
    /\ ~ENABLED Next =>
           pbCurrent = Cardinality({i \in Jobs : JobState(i) \in Terminal})

\* The text of a url after its last "/": the whole url when it has none.
TextAfterLastSlash(u) ==
    LET slashes == {k \in 1..Len(u) : u[k] = "/"}
        last == IF slashes = {} THEN 0
                ELSE CHOOSE k \in slashes : \A m \in slashes : m <= k
    IN  SubSeq(u, last + 1, Len(u))

\* C15: the name of every file written is the text after the last "/" of the
\* url it was downloaded from; for a url ending in "/" that text is empty,
\* not an earlier path segment.
C15_NameIsTextAfterLastSlash ==
    \A name \in DOMAIN files :
        \E i \in Jobs : name = TextAfterLastSlash(urls[i])

\* C12: two concurrent invocations do not interfere: each returns when its
\* own jobs are terminal, not earlier, and not later because of jobs of the
\* other: once all jobs of an invocation have succeeded its wg.Wait returns.
C12_IndependentInvocations ==
    /\ (mainpc = "returned" /\ result = "nil") =>
           \A i \in Jobs : JobState(i) \in Terminal
    /\ (second.mainpc = "returned" /\ second.result = "nil") =>
           \A j \in SecondJobs : second.pc[j] \in {"success", "finished", "fatal"}
    /\ (proc = "running" /\ mainpc = "wait" /\
        \A i \in Jobs : JobState(i) = "Succeeded") => ENABLED Wait
    /\ (proc = "running" /\ second.mainpc = "wait" /\
        \A j \in SecondJobs : second.pc[j] \in {"success", "finished"}) =>
           ENABLED SecondWait

C17_AfterAlwaysRuns ==
    (app.pc # "off" /\ app.passed /\ app.afterSet) =>
        /\ app.afterRuns <= 1
        /\ app.afterRuns = 1 => app.pc \in {"unwind", "returned", "panicked"}
        /\ app.pc \in {"returned", "panicked", "exited"} => app.afterRuns = 1

C22_PermitAccounting ==
    /\ guardLen = Cardinality(HoldingPermit)
    /\ (/\ Len(urls) >= 1
        /\ NoEmptyUrl
        /\ \A i \in Jobs : JobState(i) \in Terminal
        /\ ~ENABLED Next) =>
           /\ guardLen = 0
           /\ \A i \in Jobs : pc[i] = "finished"

\* C23: a success notice is in the sink only for a job that Succeeded and a
\* failure notice only for a job that Failed, never both for one job, and
\* neither is printed a second time; when nothing more can happen every
\* terminal job has its notice.
C23_DistinctOutcomeNotices ==
    /\ \A i \in Jobs :
          /\ <<"success", i>> \in sink => JobState(i) = "Succeeded"
          /\ <<"fatal", i>> \in sink => JobState(i) = "Failed"
          /\ ~(<<"success", i>> \in sink /\ <<"fatal", i>> \in sink)
          /\ ENABLED PrintSuccess(i) => <<"success", i>> \notin sink
          /\ ENABLED Fatal(i) => <<"fatal", i>> \notin sink
    /\ (NoEmptyUrl /\ ~ENABLED Next) =>
           \A i \in Jobs :
               JobState(i) \in Terminal =>
                   (<<"success", i>> \in sink \/ <<"fatal", i>> \in sink)

\* C24: after the run the files are exactly one per url that was downloaded
\* with success, under its derived name: a job that Failed has left no file
\* behind that it created or truncated.
C24_FilesystemLayout ==
    (NoEmptyUrl /\ ~ENABLED Next) =>
        /\ \A name \in DOMAIN files :
               \E i \in Jobs :
                   JobState(i) = "Succeeded" /\ Base(urls[i]) = name
        /\ \A i \in Jobs :
               JobState(i) = "Succeeded" => Base(urls[i]) \in DOMAIN files

====
